---- MODULE Spec2Model ----
(***************************************************************************)
(* Model of purity (src/mod.ts): the Checker class, the primitive          *)
(* checkers, the combinator factories and the type-string renderer.        *)
(*                                                                         *)
(* A JavaScript value is a tagged record.  A Checker is the record         *)
(* [typeString, check] where check is a closure: the name of the function  *)
(* body (fn) together with the variables the body captures.  Calling a     *)
(* closure completes with "true", "false" or "throw" (a TypeError raised   *)
(* by the runtime, e.g. a property read on undefined or null).             *)
(***************************************************************************)
EXTENDS Integers, Sequences, FiniteSets, TLC

\* Longest array value and largest number of own entries of an object value.
MaxLen == 2
\* Largest number of arguments passed to a variadic factory.
MaxArgs == 2

-----------------------------------------------------------------------------
(* JavaScript values *)

Undefined == [t |-> "undefined"]
Null == [t |-> "null"]
Bool(b) == [t |-> "boolean", b |-> b]
Num(n) == [t |-> "number", n |-> n]
Str(s) == [t |-> "string", s |-> s]
BigInt(n) == [t |-> "bigint", n |-> n]
Sym == [t |-> "symbol"]
Fn == [t |-> "function"]
\* items: the elements in index order (no holes)
Arr(items) == [t |-> "array", items |-> items]
\* entries: the own enumerable <<key, value>> pairs in own-key order
Obj(entries) == [t |-> "object", entries |-> entries]

\* typeof value
TypeOf(value) ==
    IF value.t \in {"null", "array", "object"} THEN "object" ELSE value.t

\* Array.isArray(value)
IsArray(value) == value.t = "array"

\* Number.prototype.toString for a natural number
RECURSIVE NumberToString(_)
NumberToString(n) ==
    IF n < 10
    THEN <<"0", "1", "2", "3", "4", "5", "6", "7", "8", "9">>[n + 1]
    ELSE NumberToString(n \div 10) \o NumberToString(n % 10)

\* Array.prototype.join
RECURSIVE Join(_, _)
Join(strings, sep) ==
    IF Len(strings) = 0 THEN ""
    ELSE IF Len(strings) = 1 THEN strings[1]
    ELSE strings[1] \o sep \o Join(Tail(strings), sep)

\* Property names every object inherits from Object.prototype (the part of
\* them that the key universe of the model holds).
ProtoKeys == {"toString"}

\* Object.entries(value): the own enumerable pairs of an object or an array
\* (the code calls it on nothing else: every call is behind a typeof guard)
ObjectEntries(value) ==
    CASE value.t = "object" -> value.entries
      [] value.t = "array" ->
            [i \in 1..Len(value.items) |-> <<NumberToString(i - 1), value.items[i]>>]
      [] OTHER -> <<>>

\* Object.keys(value)
ObjectKeys(value) ==
    LET es == ObjectEntries(value) IN [i \in 1..Len(es) |-> es[i][1]]

\* Object.values(value)
ObjectValues(value) ==
    LET es == ObjectEntries(value) IN [i \in 1..Len(es) |-> es[i][2]]

\* value[key] of a non-nullish value: an own property, else the prototype
\* chain, else undefined
Get(value, key) ==
    LET es == ObjectEntries(value)
        own == {i \in 1..Len(es) : es[i][1] = key}
    IN  IF own # {} THEN es[CHOOSE i \in own : TRUE][2]
        ELSE IF value.t = "array" /\ key = "length" THEN Num(Len(value.items))
        ELSE IF key \in ProtoKeys THEN Fn
        ELSE Undefined

\* value[key] and Object.keys/values(value) raise a TypeError on these
Nullish(value) == value.t \in {"undefined", "null"}

\* SameValueZero(a, b), the equality of Array.prototype.includes (no NaN here)
SameValueZero(a, b) ==
    /\ a.t = b.t
    /\ CASE a.t = "number" -> a.n = b.n
         [] a.t = "string" -> a.s = b.s
         [] a.t = "boolean" -> a.b = b.b
         [] a.t = "bigint" -> a.n = b.n
         [] a.t \in {"undefined", "null"} -> TRUE
         [] OTHER -> FALSE

-----------------------------------------------------------------------------
(* Checker.getTypeString *)

RECURSIVE getTypeString(_)
\* getTypeString without the special case of an object that has no entries
getTypeStringNoEmpty(value) ==
    LET type == TypeOf(value) IN
    IF type # "object" THEN type
    ELSE IF value.t = "null" THEN "null"
    ELSE IF IsArray(value)
    THEN "[" \o Join([i \in 1..Len(value.items) |-> getTypeString(value.items[i])], ", ") \o "]"
    ELSE LET entries == ObjectEntries(value) IN
         "{ " \o Join([i \in 1..Len(entries) |->
                         entries[i][1] \o ": " \o getTypeString(entries[i][2])], ", ")
              \o " }"

getTypeString(value) ==
    LET type == TypeOf(value) IN
    IF type # "object" THEN type
    ELSE IF value.t = "null" THEN "null"
    ELSE IF IsArray(value)
    THEN "[" \o Join([i \in 1..Len(value.items) |-> getTypeString(value.items[i])], ", ") \o "]"
    ELSE LET entries == ObjectEntries(value) IN
         IF Len(entries) = 0 THEN "{}"
         ELSE "{ " \o Join([i \in 1..Len(entries) |->
                              entries[i][1] \o ": " \o getTypeString(entries[i][2])], ", ")
                   \o " }"

\* new CheckerError(expected, received)
CheckerError(expected, received) ==
    [name |-> "CheckerError",
     message |-> "Expected '" \o expected \o "' but received '" \o received \o "'",
     expected |-> expected,
     received |-> received]

\* the TypeError the runtime raises on a property read of undefined or null
RuntimeTypeError ==
    [name |-> "TypeError", message |-> "Cannot read properties",
     expected |-> "", received |-> ""]

\* new Checker({typeString, check})
Checker(typeString, check) == [typeString |-> typeString, check |-> check]

unionSeparator == " | "

-----------------------------------------------------------------------------
(* Calling a check closure.  Call(check, value) is check(value). *)

RECURSIVE Call(_, _)

\* the completion of an expression that evaluates to the boolean b
Completion(b) == IF b THEN "true" ELSE "false"

\* Array.prototype.every(check) over the elements, in index order
RECURSIVE Every(_, _)
Every(check, elements) ==
    IF Len(elements) = 0 THEN "true"
    ELSE LET r == Call(check, Head(elements)) IN
         IF r = "true" THEN Every(check, Tail(elements)) ELSE r

\* checkers.some(type => type.check(value))
RECURSIVE Some(_, _)
Some(checkers, value) ==
    IF Len(checkers) = 0 THEN "false"
    ELSE LET r == Call(Head(checkers).check, value) IN
         IF r = "false" THEN Some(Tail(checkers), value) ELSE r

\* for (const [key, checker] of checkerEntries)
\*     if (!checker.check(value[key])) return false;
\* return true;
RECURSIVE CheckEntries(_, _)
CheckEntries(checkerEntries, value) ==
    IF Len(checkerEntries) = 0 THEN "true"
    ELSE IF Nullish(value) THEN "throw"
    ELSE LET key == Head(checkerEntries)[1]
             checker == Head(checkerEntries)[2]
             r == Call(checker.check, Get(value, key))
         IN  IF r = "true" THEN CheckEntries(Tail(checkerEntries), value) ELSE r

\* checkers.every((Type, i) => Type.check(value[i])), from index i on
RECURSIVE EveryAt(_, _, _)
EveryAt(checkers, value, i) ==
    IF i >= Len(checkers) THEN "true"
    ELSE LET r == Call(checkers[i + 1].check, Get(value, NumberToString(i))) IN
         IF r = "true" THEN EveryAt(checkers, value, i + 1) ELSE r

\* key in record, where record is the shape passed to $objectStrict: an own
\* key of the shape or a property the shape inherits from Object.prototype
In(key, record) ==
    \/ \E i \in 1..Len(record) : record[i][1] = key
    \/ key \in ProtoKeys

neverCheck(self, value) == "false"

undefinedCheck(self, value) == Completion(TypeOf(value) = "undefined")

nullCheck(self, value) == Completion(value = Null)

booleanCheck(self, value) == Completion(TypeOf(value) = "boolean")

\* numberCheck that takes a bigint for a number
numberCheckNumeric(self, value) == Completion(TypeOf(value) \in {"number", "bigint"})

numberCheck(self, value) == Completion(TypeOf(value) = "number")

stringCheck(self, value) == Completion(TypeOf(value) = "string")

bigintCheck(self, value) == Completion(TypeOf(value) = "bigint")

symbolCheck(self, value) == Completion(TypeOf(value) = "symbol")

\* arrayCheck that tests the first element only
arrayCheckFirst(self, values) ==
    IF ~IsArray(values) THEN "false"
    ELSE IF Len(values.items) = 0 THEN "true"
    ELSE Call(self.checker.check, values.items[1])

arrayCheck(self, values) ==
    IF ~IsArray(values) THEN "false"
    ELSE Every(self.checker.check, values.items)

\* objectCheck without the `value === null` guard
objectCheckNoNullGuard(self, value) ==
    IF TypeOf(value) # "object" THEN "false"
    ELSE CheckEntries(self.checkerEntries, value)

objectCheck(self, value) ==
    IF TypeOf(value) # "object" \/ value = Null THEN "false"
    ELSE CheckEntries(self.checkerEntries, value)

\* objectStrictCheck that tests the keys and not the declared checkers
objectStrictCheckKeysOnly(self, value) ==
    IF TypeOf(value) # "object" \/ value = Null THEN "false"
    ELSE LET keys == ObjectKeys(value) IN
         Completion(\A i \in 1..Len(keys) : In(keys[i], self.record))

objectStrictCheck(self, value) ==
    IF TypeOf(value) # "object" \/ value = Null THEN "false"
    ELSE IF Nullish(value) THEN "throw"
    ELSE LET keys == ObjectKeys(value) IN
         IF ~(\A i \in 1..Len(keys) : In(keys[i], self.record)) THEN "false"
         ELSE CheckEntries(self.checkerEntries, value)

recordCheck(self, value) ==
    IF TypeOf(value) # "object" THEN "false"
    ELSE IF value = Null THEN "false"
    ELSE IF Nullish(value) THEN "throw"
    ELSE Every(self.valueChecker.check, ObjectValues(value))

\* the text of a string, or of a number converted to a string
LiteralText(lit) == IF lit.t = "string" THEN lit.s ELSE NumberToString(lit.n)

\* literalCheck with the loose ==, under which 1 == "1"
literalCheckLoose(self, value) ==
    Completion(\E i \in 1..Len(self.literals) :
                  \/ SameValueZero(self.literals[i], value)
                  \/ /\ {self.literals[i].t, value.t} = {"number", "string"}
                     /\ LiteralText(self.literals[i]) = LiteralText(value))

literalCheck(self, value) ==
    Completion(\E i \in 1..Len(self.literals) : SameValueZero(self.literals[i], value))

\* optionalCheck with the loose `value == undefined`, which null satisfies too
optionalCheckLoose(self, value) ==
    IF Nullish(value) THEN "true" ELSE Call(self.checker.check, value)

optionalCheck(self, value) ==
    LET u == Call(self.undefined.check, value) IN
    IF u # "false" THEN u ELSE Call(self.checker.check, value)

nullableCheck(self, value) ==
    LET n == Call(self.null.check, value) IN
    IF n # "false" THEN n ELSE Call(self.checker.check, value)

\* tupleCheck without the length comparison
tupleCheckNoLength(self, value) ==
    IF ~IsArray(value) THEN "false"
    ELSE EveryAt(self.checkers, value, 0)

tupleCheck(self, value) ==
    IF ~IsArray(value) THEN "false"
    ELSE IF Len(value.items) # Len(self.checkers) THEN "false"
    ELSE EveryAt(self.checkers, value, 0)

\* unionCheck that stops at the first child
unionCheckFirst(self, value) ==
    IF Len(self.checkers) = 0 THEN "false"
    ELSE Call(self.checkers[1].check, value)

unionCheck(self, value) == Some(self.checkers, value)

Call(check, value) ==
    CASE check.fn = "never" -> neverCheck(check, value)
      [] check.fn = "undefined" -> undefinedCheck(check, value)
      [] check.fn = "null" -> nullCheck(check, value)
      [] check.fn = "boolean" -> booleanCheck(check, value)
      [] check.fn = "number" -> numberCheck(check, value)
      [] check.fn = "string" -> stringCheck(check, value)
      [] check.fn = "bigint" -> bigintCheck(check, value)
      [] check.fn = "symbol" -> symbolCheck(check, value)
      [] check.fn = "array" -> arrayCheck(check, value)
      [] check.fn = "object" -> objectCheck(check, value)
      [] check.fn = "objectStrict" -> objectStrictCheck(check, value)
      [] check.fn = "record" -> recordCheck(check, value)
      [] check.fn = "literal" -> literalCheck(check, value)
      [] check.fn = "optional" -> optionalCheck(check, value)
      [] check.fn = "nullable" -> nullableCheck(check, value)
      [] check.fn = "tuple" -> tupleCheck(check, value)
      [] check.fn = "union" -> unionCheck(check, value)

-----------------------------------------------------------------------------
(* The primitive checkers and the factories *)

never == Checker("never", [fn |-> "never"])

undefined == Checker("undefined", [fn |-> "undefined"])

null == Checker("null", [fn |-> "null"])

boolean == Checker("boolean", [fn |-> "boolean"])

number == Checker("number", [fn |-> "number"])

string == Checker("string", [fn |-> "string"])

bigint == Checker("bigint", [fn |-> "bigint"])

symbol == Checker("symbol", [fn |-> "symbol"])

\* checkers.map(type => type.typeString)
TypeStrings(checkers) == [i \in 1..Len(checkers) |-> checkers[i].typeString]

union(checkers) ==
    Checker(Join(TypeStrings(checkers), unionSeparator),
            [fn |-> "union", checkers |-> checkers])

array(checkers) ==
    LET checker == CASE Len(checkers) = 0 -> never
                     [] Len(checkers) = 1 -> checkers[1]
                     [] OTHER -> union(checkers)
        typeString == (IF Len(checkers) > 1
                       THEN "(" \o checker.typeString \o ")"
                       ELSE checker.typeString) \o "[]"
    IN  Checker(typeString, [fn |-> "array", checker |-> checker])

\* checkerEntries.map(([key, checker]) => key + ': ' + checker.typeString)
PropertyStrings(checkerEntries) ==
    [i \in 1..Len(checkerEntries) |->
        checkerEntries[i][1] \o ": " \o checkerEntries[i][2].typeString]

\* A shape (record) is the sequence of its <<key, checker>> properties in
\* insertion order; its keys are not integer-like, so Object.entries(record)
\* is that sequence.
object(record) ==
    LET checkerEntries == record
        propertyStrings == PropertyStrings(checkerEntries)
        typeString == "{ " \o Join(propertyStrings, ", ") \o " }"
    IN  Checker(typeString, [fn |-> "object", checkerEntries |-> checkerEntries])

objectStrict(record) ==
    LET checkerEntries == record
        propertyStrings == PropertyStrings(checkerEntries)
        typeString == "{ " \o Join(propertyStrings, ", ") \o " }"
    IN  Checker(typeString,
                [fn |-> "objectStrict", record |-> record,
                 checkerEntries |-> checkerEntries])

record(valueChecker) ==
    Checker("{ [key: string]: " \o valueChecker.typeString \o " }",
            [fn |-> "record", valueChecker |-> valueChecker])

\* typeof literal === 'string' ? `"${literal}"` : literal.toString()
LiteralString(lit) ==
    IF TypeOf(lit) = "string" THEN "\"" \o lit.s \o "\"" ELSE NumberToString(lit.n)

literal(literals) ==
    Checker(Join([i \in 1..Len(literals) |-> LiteralString(literals[i])], " | "),
            [fn |-> "literal", literals |-> literals])

optional(checker) ==
    Checker(checker.typeString \o unionSeparator \o undefined.typeString,
            [fn |-> "optional", checker |-> checker, undefined |-> undefined])

nullable(checker) ==
    Checker(checker.typeString \o unionSeparator \o null.typeString,
            [fn |-> "nullable", checker |-> checker, null |-> null])

tuple(checkers) ==
    Checker("[" \o Join(TypeStrings(checkers), ", ") \o "]",
            [fn |-> "tuple", checkers |-> checkers])

-----------------------------------------------------------------------------
(* Inputs *)

\* sequences over S of length 0..n
SeqsUpTo(S, n) == UNION {[1..k -> S] : k \in 0..n}

\* sequences of <<key, x>> pairs with distinct keys from K, x from S
EntriesUpTo(K, S, n) ==
    {es \in SeqsUpTo(K \X S, n) :
        \A i, j \in 1..Len(es) : i # j => es[i][1] # es[j][1]}

\* property names: an ordinary one and one that Object.prototype defines
Keys == {"foo", "toString"}

Primitives == {never, undefined, null, boolean, number, string, bigint, symbol}

\* the checkers passed to the factories
Children == {undefined, null, number, string, optional(number), array(<<number>>)}

\* the values held by array and object values
Elements == {Undefined, Null, Num(1), Str("1"), Arr(<<Num(1)>>)}

Atoms == {Undefined, Null, Bool(TRUE), Num(1), Num(2), Str("1"), BigInt(1), Sym, Fn}

Values ==
    Atoms
    \cup {Arr(items) : items \in SeqsUpTo(Elements, MaxLen)}
    \cup {Obj(entries) : entries \in EntriesUpTo(Keys, Elements, MaxLen)}

Literals == {Num(1), Num(2), Str("1")}

-----------------------------------------------------------------------------
(* State *)

VARIABLES
    value,       \* the unknown value the program validates
    checker,     \* the checker the program validates it with
    made,        \* how the checker was made: [factory, args]
    op,          \* "load" (module loaded), "new" (checker made), or the
                 \* last call on the checker: "check" or "assert"
    completion,  \* how that call completed: "return" or "throw"
    returned,    \* the value the call returned
    thrown,      \* the error the call raised
    earlier      \* what the caller has seen check return on this checker:
                 \* the set of <<value, boolean>> of its check calls

vars == <<value, checker, made, op, completion, returned, thrown, earlier>>

NoError == [name |-> "", message |-> "", expected |-> "", received |-> ""]

\* The module is loaded: its constants exist, no factory has been called.
Init ==
    /\ value \in Values
    /\ checker = never
    /\ made = [factory |-> "primitive", args |-> <<>>]
    /\ op = "load"
    /\ completion = "return"
    /\ returned = Undefined
    /\ thrown = NoError
    /\ earlier = {}

\* new Checker(...) by a factory: c becomes the checker under test
Made(factory, args, c) ==
    /\ checker' = c
    /\ made' = [factory |-> factory, args |-> args]
    /\ op' = "new"
    /\ UNCHANGED <<value, completion, returned, thrown, earlier>>

\* The program makes its checker once, before it validates: every factory
\* call happens in the "load" state.

UsePrimitive ==
    /\ op = "load"
    /\ \E c \in Primitives : Made("primitive", <<>>, c)

NewArray ==
    /\ op = "load"
    /\ \E checkers \in SeqsUpTo(Children, MaxArgs) :
          Made("array", checkers, array(checkers))

NewObject ==
    /\ op = "load"
    /\ \E shape \in EntriesUpTo(Keys, Children, MaxArgs) :
          Made("object", shape, object(shape))

NewObjectStrict ==
    /\ op = "load"
    /\ \E shape \in EntriesUpTo(Keys, Children, MaxArgs) :
          Made("objectStrict", shape, objectStrict(shape))

NewRecord ==
    /\ op = "load"
    /\ \E c \in Children : Made("record", <<c>>, record(c))

NewLiteral ==
    /\ op = "load"
    /\ \E literals \in SeqsUpTo(Literals, MaxArgs) :
          Made("literal", literals, literal(literals))

NewOptional ==
    /\ op = "load"
    /\ \E c \in Children : Made("optional", <<c>>, optional(c))

NewNullable ==
    /\ op = "load"
    /\ \E c \in Children : Made("nullable", <<c>>, nullable(c))

NewTuple ==
    /\ op = "load"
    /\ \E checkers \in SeqsUpTo(Children, MaxArgs) :
          Made("tuple", checkers, tuple(checkers))

NewUnion ==
    /\ op = "load"
    /\ \E checkers \in SeqsUpTo(Children, MaxArgs) :
          Made("union", checkers, union(checkers))

\* checker.check(value)
Check ==
    /\ op # "load"
    /\ LET r == Call(checker.check, value) IN
        /\ op' = "check"
        /\ completion' = IF r = "throw" THEN "throw" ELSE "return"
        /\ returned' = IF r = "throw" THEN Undefined ELSE Bool(r = "true")
        /\ thrown' = IF r = "throw" THEN RuntimeTypeError ELSE NoError
        /\ earlier' = IF r = "throw" THEN earlier ELSE earlier \cup {<<value, r = "true">>}
    /\ UNCHANGED <<value, checker, made>>

\* assert with the arguments of CheckerError swapped
assertSwapped ==
    /\ op # "load"
    /\ LET r == Call(checker.check, value) IN
        /\ op' = "assert"
        /\ completion' = IF r = "true" THEN "return" ELSE "throw"
        /\ returned' = IF r = "true" THEN value ELSE Undefined
        /\ thrown' = CASE r = "true" -> NoError
                       [] r = "false" -> CheckerError(getTypeString(value), checker.typeString)
                       [] OTHER -> RuntimeTypeError
    /\ UNCHANGED <<value, checker, made, earlier>>

\* assert that, when it fails, leaves the checker rejecting everything
assertPoisons ==
    /\ op # "load"
    /\ LET r == Call(checker.check, value) IN
        /\ op' = "assert"
        /\ completion' = IF r = "true" THEN "return" ELSE "throw"
        /\ returned' = IF r = "true" THEN value ELSE Undefined
        /\ thrown' = CASE r = "true" -> NoError
                       [] r = "false" -> CheckerError(checker.typeString, getTypeString(value))
                       [] OTHER -> RuntimeTypeError
        /\ checker' = IF r = "true" THEN checker ELSE [checker EXCEPT !.check = never.check]
    /\ UNCHANGED <<value, made, earlier>>

\* checker.assert(value)
assert ==
    /\ op # "load"
    /\ LET r == Call(checker.check, value) IN
        /\ op' = "assert"
        /\ completion' = IF r = "true" THEN "return" ELSE "throw"
        /\ returned' = IF r = "true" THEN value ELSE Undefined
        /\ thrown' = CASE r = "true" -> NoError
                       [] r = "false" -> CheckerError(checker.typeString, getTypeString(value))
                       [] OTHER -> RuntimeTypeError
    /\ UNCHANGED <<value, checker, made, earlier>>

Next ==
    \/ UsePrimitive
    \/ NewArray
    \/ NewObject
    \/ NewObjectStrict
    \/ NewRecord
    \/ NewLiteral
    \/ NewOptional
    \/ NewNullable
    \/ NewTuple
    \/ NewUnion
    \/ Check
    \/ assert

Spec == Init /\ [][Next]_vars

\* the values of a program that validates several values with one checker
CallValues ==
    {Undefined, Num(1), Arr(<<Num(1), Num(1)>>), Obj(<< <<"foo", Num(1)>> >>)}

InitCalls == Init /\ value \in CallValues

\* the program turns to another value, which it has not validated yet
Receive ==
    /\ op # "load"
    /\ value' \in CallValues
    /\ op' = "new"
    /\ completion' = "return"
    /\ returned' = Undefined
    /\ thrown' = NoError
    /\ UNCHANGED <<checker, made, earlier>>

NextCalls == Next \/ Receive

\* any sequence of check and assert calls on one checker, on changing values
SpecCalls == InitCalls /\ [][NextCalls]_vars

-----------------------------------------------------------------------------
(* The value model of the specification: a tagged variant in which ordered *)
(* sequences and records are distinct kinds.                               *)

IsSequence(v) == v.t = "array"

IsRecord(v) == v.t = "object"

\* the own keys a value carries
OwnKeys(v) ==
    CASE v.t = "object" -> {v.entries[i][1] : i \in 1..Len(v.entries)}
      [] v.t = "array" -> {NumberToString(i - 1) : i \in 1..Len(v.items)}
      [] OTHER -> {}

\* the own values of a record or sequence
OwnValues(v) ==
    CASE v.t = "object" -> {v.entries[i][2] : i \in 1..Len(v.entries)}
      [] v.t = "array" -> {v.items[i] : i \in 1..Len(v.items)}
      [] OTHER -> {}

\* record v at key: the own value, or the absent sentinel when v has no such key
At(v, key) ==
    IF key \in OwnKeys(v)
    THEN v.entries[CHOOSE i \in 1..Len(v.entries) : v.entries[i][1] = key][2]
    ELSE Undefined

\* the keys a shape declares
Declared(shape) == {shape[i][1] : i \in 1..Len(shape)}

\* checker c accepts v
Accepts(c, v) == Call(c.check, v) = "true"

\* the last call was check on a checker made by the factory
Checked(factory) == op = "check" /\ made.factory = factory

\* the rearrangements of a sequence
Rearrangements(s) ==
    {[i \in 1..Len(s) |-> s[p[i]]] :
        p \in {q \in [1..Len(s) -> 1..Len(s)] : \A i, j \in 1..Len(s) : q[i] = q[j] => i = j}}

-----------------------------------------------------------------------------
(* Claims *)

\* C1: assert returns the value itself and raises nothing when check accepts
\* it; when check rejects it, assert returns nothing and raises a CheckerError
\* whose expected field is the checker's typeString.
C1_AssertReturnsOrRaises ==
    op = "assert" =>
        /\ Accepts(checker, value) =>
              completion = "return" /\ returned = value /\ thrown = NoError
        /\ Call(checker.check, value) = "false" =>
              /\ completion = "throw"
              /\ returned = Undefined
              /\ thrown.name = "CheckerError"
              /\ thrown.expected = checker.typeString

\* assert raised on a checker built by a combinator
C1_Witness ==
    /\ op = "assert"
    /\ made.factory = "object"
    /\ Len(made.args) = 1
    /\ value = Num(1)
    /\ completion = "throw"
    /\ thrown.expected = "{ foo: number }"

\* C2: check never raises, whatever the checker and the value: it returns
\* true or false, and a mismatch is the result false.
C2_CheckNeverRaises ==
    op = "check" =>
        /\ completion = "return"
        /\ thrown = NoError
        /\ returned \in {Bool(TRUE), Bool(FALSE)}

\* check of an object checker with declared keys on null returns false
C2_Witness ==
    /\ Checked("object")
    /\ Len(made.args) > 0
    /\ value = Null
    /\ completion = "return"
    /\ returned = Bool(FALSE)

\* C3: objectStrict rejects every value that carries an own key the shape does
\* not declare, whatever the key's name and its value, and with an empty
\* shape it accepts nothing that has an own key.
C3_StrictRejectsUndeclaredKeys ==
    Checked("objectStrict") =>
        /\ OwnKeys(value) \ Declared(made.args) # {} => returned = Bool(FALSE)
        /\ (made.args = <<>> /\ returned = Bool(TRUE)) => OwnKeys(value) = {}

\* C4: on a record, object(shape).check is true exactly when every declared
\* key's checker accepts the record's value at that key, a key the record
\* lacks being tested as undefined; undeclared keys do not matter.
C4_ObjectChecksDeclaredKeys ==
    (Checked("object") /\ IsRecord(value)) =>
        returned = Bool(\A i \in 1..Len(made.args) :
                            Accepts(made.args[i][2], At(value, made.args[i][1])))

\* C5: object({}) accepts exactly the records (no primitive, no null, no
\* sequence), and objectStrict({}) accepts exactly the records with no own
\* keys.
C5_EmptyShape ==
    /\ (Checked("object") /\ made.args = <<>>) => returned = Bool(IsRecord(value))
    /\ (Checked("objectStrict") /\ made.args = <<>>) =>
            returned = Bool(IsRecord(value) /\ OwnKeys(value) = {})

\* C6: array(c1..cn).check(v) is true exactly when v is a sequence and every
\* element of v is accepted by at least one ci.
C6_ArrayEveryElementBySomeChild ==
    Checked("array") =>
        returned = Bool(/\ IsSequence(value)
                        /\ \A e \in OwnValues(value) :
                              \E i \in 1..Len(made.args) : Accepts(made.args[i], e))

\* a sequence whose elements are accepted by different children of the array
C6_Witness ==
    /\ Checked("array")
    /\ made.args = <<number, string>>
    /\ value = Arr(<<Str("1"), Num(1)>>)
    /\ returned = Bool(TRUE)

\* C7: tuple(c1..cn).check(v) is true exactly when v is a sequence of length
\* n whose element at each position i is accepted by ci.
C7_TupleExactLengthAndPositions ==
    Checked("tuple") =>
        returned = Bool(/\ IsSequence(value)
                        /\ Len(value.items) = Len(made.args)
                        /\ \A i \in 1..Len(made.args) :
                              Accepts(made.args[i], value.items[i]))

\* a sequence longer than the tuple whose leading elements are all accepted
C7_Witness ==
    /\ Checked("tuple")
    /\ made.args = <<number>>
    /\ value = Arr(<<Num(1), Num(1)>>)
    /\ returned = Bool(FALSE)

\* C8: union(c1..cn).check(v) is true exactly when some ci accepts v; every
\* rearrangement of the children gives the same result; the union of no
\* children is built (with the empty typeString) and accepts nothing.
C8_UnionSomeChildAnyOrder ==
    Checked("union") =>
        /\ returned = Bool(\E i \in 1..Len(made.args) : Accepts(made.args[i], value))
        /\ \A p \in Rearrangements(made.args) : Bool(Accepts(union(p), value)) = returned
        /\ made.args = <<>> => returned = Bool(FALSE) /\ checker.typeString = ""

\* a value that only the last child of the union accepts
C8_Witness ==
    /\ Checked("union")
    /\ made.args = <<string, number>>
    /\ value = Num(1)
    /\ returned = Bool(TRUE)

\* C9: record(c).check(v) is true exactly when v is a record (no primitive,
\* no null, no sequence) and c accepts every own value of v.
C9_RecordEveryOwnValue ==
    Checked("record") =>
        returned = Bool(/\ IsRecord(value)
                        /\ \A x \in OwnValues(value) : Accepts(made.args[1], x))

\* C10: optional(c).check(v) is true exactly when v is undefined or c accepts
\* v, and nullable(c).check(v) exactly when v is null or c accepts v.
C10_OptionalNullable ==
    /\ Checked("optional") =>
            returned = Bool(value = Undefined \/ Accepts(made.args[1], value))
    /\ Checked("nullable") =>
            returned = Bool(value = Null \/ Accepts(made.args[1], value))

\* optional(number) rejects null
C10_Witness ==
    /\ Checked("optional")
    /\ made.args = <<number>>
    /\ value = Null
    /\ returned = Bool(FALSE)


\* C11: literal(l1..ln).check(v) is true exactly when v equals some li, where
\* a number and a string are never equal; the order of the literals does not
\* change the result; a value that is neither a string nor a number is
\* rejected.
C11_LiteralEqualsSomeLiteral ==
    Checked("literal") =>
        /\ returned = Bool(\E i \in 1..Len(made.args) : made.args[i] = value)
        /\ \A p \in Rearrangements(made.args) : Bool(Accepts(literal(p), value)) = returned
        /\ value.t \notin {"string", "number"} => returned = Bool(FALSE)

\* the number 1 is a literal, the string "1" is tested
C11_Witness ==
    /\ Checked("literal")
    /\ made.args = <<Num(2), Num(1)>>
    /\ value = Str("1")
    /\ returned = Bool(FALSE)


\* the kind of a value in the value model
Kind(v) == v.t

\* C12: never accepts no value, and each of the seven kind checkers accepts
\* exactly the values of the kind it is named after, so at most one of them
\* accepts a given value and none accepts a sequence or a record.
C12_PrimitivesAcceptOwnKind ==
    Checked("primitive") =>
        /\ returned = Bool(checker # never /\ Kind(value) = checker.typeString)
        /\ Cardinality({c \in Primitives : Accepts(c, value)}) <= 1
        /\ (IsSequence(value) \/ IsRecord(value)) => returned = Bool(FALSE)

\* the number checker is given a bigint
C12_Witness ==
    /\ Checked("primitive")
    /\ checker = number
    /\ value = BigInt(1)
    /\ returned = Bool(FALSE)


\* strings joined by a comma and a space
RECURSIVE CommaJoined(_)
CommaJoined(strings) ==
    IF strings = <<>> THEN ""
    ELSE IF Len(strings) = 1 THEN strings[1]
    ELSE strings[1] \o ", " \o CommaJoined(Tail(strings))

\* the rendering of a value: its kind name if it is not structured, "null"
\* for null, the bracketed renderings of the elements of a sequence, the
\* braced "key: rendering" pairs of a record in own-key order
RECURSIVE Rendering(_)
Rendering(v) ==
    CASE IsSequence(v) ->
            "[" \o CommaJoined([i \in 1..Len(v.items) |-> Rendering(v.items[i])]) \o "]"
      [] IsRecord(v) /\ v.entries = <<>> -> "{}"
      [] IsRecord(v) /\ v.entries # <<>> ->
            "{ " \o CommaJoined([i \in 1..Len(v.entries) |->
                                   v.entries[i][1] \o ": " \o Rendering(v.entries[i][2])])
                 \o " }"
      [] OTHER -> Kind(v)

\* C13: when assert fails, the error's received field is the rendering of
\* the value, whatever the checker, and its message is
\* "Expected '<expected>' but received '<received>'".
C13_ReceivedIsRendering ==
    (op = "assert" /\ completion = "throw") =>
        /\ thrown.received = Rendering(value)
        /\ thrown.message =
              "Expected '" \o checker.typeString \o "' but received '"
                  \o Rendering(value) \o "'"

\* a failed assert on a record that holds a sequence
C13_Witness ==
    /\ op = "assert"
    /\ completion = "throw"
    /\ checker = number
    /\ value = Obj(<< <<"toString", Arr(<<Num(1)>>)>>, <<"foo", Undefined>> >>)
    /\ thrown.message = "Expected 'number' but received '{ toString: [number], foo: undefined }'"

\* a failed assert on a record that has no own entries
C13_WitnessEmpty ==
    /\ op = "assert"
    /\ completion = "throw"
    /\ value = Obj(<<>>)
    /\ thrown.received = "{}"


\* the checker as the factory call recorded in made builds it
Constructed(m) ==
    CASE m.factory = "array" -> array(m.args)
      [] m.factory = "object" -> object(m.args)
      [] m.factory = "objectStrict" -> objectStrict(m.args)
      [] m.factory = "record" -> record(m.args[1])
      [] m.factory = "literal" -> literal(m.args)
      [] m.factory = "optional" -> optional(m.args[1])
      [] m.factory = "nullable" -> nullable(m.args[1])
      [] m.factory = "tuple" -> tuple(m.args)
      [] m.factory = "union" -> union(m.args)

\* C14: after any sequence of check and assert calls, returned or raised, the
\* checker's typeString is the string computed at its construction, and
\* check has returned one boolean only for each value it was called on.
C14_NoHiddenState ==
    /\ (op # "load" /\ made.factory = "primitive") =>
            checker \in Primitives
    /\ (op # "load" /\ made.factory # "primitive") =>
            checker.typeString = Constructed(made).typeString
    /\ \A p, q \in earlier : p[1] = q[1] => p[2] = q[2]
    /\ op = "check" => <<value, returned = Bool(TRUE)>> \in earlier

\* check is called again on a tuple whose two children are one shared
\* checker, after calls on other values, one accepted and one rejected
C14_Witness ==
    /\ Checked("tuple")
    /\ made.args = <<number, number>>
    /\ value = Arr(<<Num(1), Num(1)>>)
    /\ returned = Bool(TRUE)
    /\ Cardinality(earlier) = 4


\* C15: whatever objectStrict(shape) accepts, object(shape) accepts; on a
\* value whose own keys are all declared in shape the two return the same
\* result; and the two have the same typeString.
C15_StrictRefinesLenient ==
    Checked("objectStrict") =>
        /\ returned = Bool(TRUE) => Accepts(object(made.args), value)
        /\ OwnKeys(value) \subseteq Declared(made.args) =>
              returned = Bool(Accepts(object(made.args), value))
        /\ checker.typeString = object(made.args).typeString

\* a record whose only own key is declared, with a value the shape rejects:
\* the strict checker rejects it as the lenient one does
C15_Witness ==
    /\ Checked("objectStrict")
    /\ made.args = << <<"foo", number>> >>
    /\ value = Obj(<< <<"foo", Str("1")>> >>)
    /\ returned = Bool(FALSE)

====
